---- MODULE Spec2Model ----
(***************************************************************************)
(* Distributed query federation: the two servers of the repository,        *)
(* distributed_query.py ("dq") and distributed_query_optimized.py ("opt"). *)
(* A request is a coroutine; its steps are the code between two awaits.    *)
(* Queries are sequences of tokens, the remote containers and the local    *)
(* DuckDB connection are databases of frames (columns and rows).           *)
(***************************************************************************)
EXTENDS Naturals, Sequences, FiniteSets, TLC

VARIABLES server, mode, hashOrder, conn, registered, req, started, call, ret

vars == <<server, mode, hashOrder, conn, registered, req, started, call, ret>>

(* ------------------------------ bounds --------------------------------- *)

\* Total number of requests a behaviour starts.
MaxRequests == 2

\* The two request slots that may be in flight at once.
Slots == {"r1", "r2"}

(* ------------------------------ tokens --------------------------------- *)

Tok(k, t, c, n, tmp, vs) == [k |-> k, t |-> t, c |-> c, n |-> n, tmp |-> tmp, vs |-> vs]
Kw(s) == Tok("kw", s, "", 0, FALSE, <<>>)
Star == Tok("star", "", "", 0, FALSE, <<>>)
Tab(t) == Tok("tab", t, "", 0, FALSE, <<>>)
Col(t, c) == Tok("col", t, c, 0, FALSE, <<>>)
Lit(v) == Tok("lit", "", v, 0, FALSE, <<>>)
Num(n) == Tok("num", "", "", n, FALSE, <<>>)
InList(vs) == Tok("in", "", "", 0, FALSE, vs)

\* The positions 1..n that pass Test, in increasing order.
SelectIdx(n, Test(_)) == SelectSeq([i \in 1..n |-> i], Test)

\* The first position of s that passes Test, 0 when there is none.
FirstIdx(s, Test(_)) ==
    LET hits == SelectIdx(Len(s), Test) IN IF hits = <<>> THEN 0 ELSE hits[1]

Take(s, n) == IF Len(s) <= n THEN s ELSE SubSeq(s, 1, n)

Range(s) == {s[i] : i \in 1..Len(s)}

(* --------------------- configuration and remote data ------------------- *)

\* The table registry loaded by _load_config: logical name -> container.
ConfigTables == {"accounts", "transactions", "branches"}

\* accounts and branches are served under their own names, transactions
\* under the container's default --table-name.
Config == [t \in ConfigTables |->
             [url |-> t,
              table_name |-> IF t = "transactions" THEN "s3_data" ELSE t]]

\* What the remote containers hold (rows in storage order).
RemoteRows ==
    [t \in ConfigTables |->
        IF t = "accounts"
        THEN << [id |-> "1", region |-> "US"],
                [id |-> "2", region |-> "EU"],
                [id |-> "3", region |-> "US"] >>
        ELSE IF t = "branches"
        THEN << [id |-> "1", city |-> "Oslo"],
                [id |-> "2", city |-> "Riga"],
                [id |-> "3", city |-> "Bern"] >>
        ELSE << [id |-> "1", account_id |-> "1"],
                [id |-> "2", account_id |-> "3"],
                [id |-> "3", account_id |-> "3"],
                [id |-> "4", account_id |-> "3"] >>]

RemoteCols ==
    [t \in ConfigTables |->
        IF t = "accounts" THEN {"id", "region"}
        ELSE IF t = "branches" THEN {"id", "city"}
        ELSE {"id", "account_id"}]

\* GET /metadata of a container.
Metadata(t) == [row_count |-> Len(RemoteRows[t]), columns |-> RemoteCols[t]]

(* ------------------------- the SQL engines ------------------------------ *)

\* str.lower() of a column name, and the engines' case-insensitive
\* identifiers: the names the queries write in upper case.
Lower(c) == IF c = "REGION" THEN "region" ELSE c

\* The name a table token refers to: temp_<t> or <t>.
Name(tok) == [tmp |-> tok.tmp, t |-> tok.t]
TempName(t) == [tmp |-> TRUE, t |-> t]

Frame(cols, rows) == [cols |-> cols, rows |-> rows]

\* The table references of a query: the tokens after FROM and JOIN.
RefPositions(q) ==
    SelectIdx(Len(q), LAMBDA i : i > 1 /\ q[i].k = "tab"
                                 /\ q[i-1] \in {Kw("FROM"), Kw("JOIN")})

\* The atomic predicates of a query (ON and WHERE alike): col = col,
\* col = literal, col IN (list).
AtomPositions(q) ==
    SelectIdx(Len(q), LAMBDA p : /\ q[p].k = "col"
                                 /\ p + 2 <= Len(q)
                                 /\ \/ q[p+1] = Kw("=") /\ q[p+2].k \in {"col", "lit"}
                                    \/ q[p+1] = Kw("IN") /\ q[p+2].k = "in")

\* LIMIT n of a query as <<n>>, or <<>>.
SqlLimit(q) ==
    LET p == FirstIdx(q, LAMBDA i : q[i] = Kw("LIMIT") /\ i < Len(q) /\ q[i+1].k = "num")
    IN IF p = 0 THEN <<>> ELSE <<q[p+1].n>>

\* The select list: the tokens between SELECT and the first FROM.
SelectList(q) ==
    LET f == FirstIdx(q, LAMBDA i : q[i] = Kw("FROM"))
    IN IF f <= 2 THEN <<Star>> ELSE SubSeq(q, 2, f - 1)

RECURSIVE Cross(_)
\* The cross product of row sequences, first sequence outermost.
Cross(rs) ==
    IF rs = <<>> THEN << <<>> >>
    ELSE LET rest == Cross(Tail(rs))
             m == Len(rest)
             h == Head(rs)
         IN [k \in 1..(Len(h) * m) |->
                <<h[((k - 1) \div m) + 1]>> \o rest[((k - 1) % m) + 1]]

\* Execution of a SELECT by a SQL engine holding the tables db: the inner
\* join of the referenced tables filtered by every predicate, then LIMIT,
\* then the select list.  ok is FALSE where the engine raises (a referenced
\* table or column that does not exist, an ambiguous column).
Eval(q, db) ==
    LET refPos == RefPositions(q)
        n == Len(refPos)
        ref(i) == q[refPos[i]]
        known == \A i \in 1..n : Name(ref(i)) \in DOMAIN db
        fr(i) == db[Name(ref(i))]
        \* the parts a column token may denote
        parts(col) ==
            {i \in 1..n : /\ Lower(col.c) \in fr(i).cols
                          /\ col.t # "" => (ref(i).t = col.t /\ ref(i).tmp = col.tmp)}
        part(col) == CHOOSE i \in parts(col) : TRUE
        atoms == AtomPositions(q)
        sel == SelectList(q)
        colToks == {q[p] : p \in Range(atoms)}
                     \cup {q[p+2] : p \in {a \in Range(atoms) : q[a+2].k = "col"}}
                     \cup {sel[i] : i \in {j \in 1..Len(sel) : sel[j].k = "col"}}
        bound == \A c \in colToks : Cardinality(parts(c)) = 1
        val(row, col) == row[part(col)][Lower(col.c)]
        holds(row, p) ==
            IF q[p+1] = Kw("IN") THEN val(row, q[p]) \in Range(q[p+2].vs)
            ELSE IF q[p+2].k = "lit" THEN val(row, q[p]) = q[p+2].c
            ELSE val(row, q[p]) = val(row, q[p+2])
        all == Cross([i \in 1..n |-> fr(i).rows])
        kept == SelectSeq(all, LAMBDA row : \A p \in Range(atoms) : holds(row, p))
        lim == SqlLimit(q)
        cut == IF lim = <<>> THEN kept ELSE Take(kept, lim[1])
        star == \E i \in 1..Len(sel) : sel[i].k = "star"
        chosen(i) == IF star THEN fr(i).cols
                     ELSE {c \in fr(i).cols :
                             \E j \in 1..Len(sel) : sel[j].k = "col" /\ Lower(sel[j].c) = c
                                                    /\ part(sel[j]) = i}
        proj(row) == [i \in 1..n |-> [c \in chosen(i) |-> row[i][c]]]
    IN IF n >= 1 /\ known /\ bound
       THEN [ok |-> TRUE, rows |-> [k \in 1..Len(cut) |-> proj(cut[k])],
             cols |-> [i \in 1..n |-> chosen(i)]]
       ELSE [ok |-> FALSE, rows |-> <<>>, cols |-> <<>>]

\* The database of the container that serves logical table t.
RemoteDB(t) ==
    [nm \in {[tmp |-> FALSE, t |-> Config[t].table_name]} |->
        Frame(RemoteCols[t], RemoteRows[t])]

\* POST /query on the container of table t.
RemoteExec(t, q) == Eval(q, RemoteDB(t))

(* -------------------- parsing, distributed_query.py --------------------- *)

\* The position of the first WHERE keyword, 0 when there is none.
WherePos(q) == FirstIdx(q, LAMBDA i : q[i] = Kw("WHERE"))

\* A configured url is a sequence of pieces, the scheme (if any) first.
Schemes == {"http://", "https://"}

\* str.startswith(('http://', 'https://')).
HasScheme(url) == url # <<>> /\ Head(url) \in Schemes

\* _get_table_metadata: the url of the GET.
DQMetadataUrl(cfg) ==
    (IF ~HasScheme(cfg.url) THEN <<"http://">> \o cfg.url ELSE cfg.url)
      \o <<":", cfg.port, "/metadata">>

\* _execute_remote_query: the url of the POST.
DQRemoteQueryUrl(cfg) ==
    IF HasScheme(cfg.url) THEN cfg.url \o <<":", cfg.port, "/query">>
    ELSE <<"http://">> \o cfg.url \o <<":", cfg.port, "/query">>

\* execute_query, single table: the url of the POST.
DQForwardUrl(cfg) == cfg.url \o <<":", cfg.port>> \o <<"/query">>

\* _parse_join_conditions: the word loop stops at the first WHERE.
DQScanEnd(q) == IF WherePos(q) = 0 THEN Len(q) ELSE WherePos(q) - 1

\* tables: the word after every FROM and JOIN, in encounter order.
DQTables(q) ==
    LET at == SelectIdx(DQScanEnd(q), LAMBDA i : q[i] \in {Kw("FROM"), Kw("JOIN")}
                                                  /\ i < Len(q))
    IN [k \in 1..Len(at) |-> q[at[k] + 1].t]

\* join_conditions: for every ON, the rest of the query up to WHERE.
DQJoinConditions(q) ==
    LET at == SelectIdx(DQScanEnd(q), LAMBDA i : q[i] = Kw("ON"))
    IN [k \in 1..Len(at) |-> SubSeq(q, at[k] + 1, DQScanEnd(q))]

\* _parse_query_components: select, from, where (without a trailing
\* LIMIT n) and limit; an absent part is <<>>.
DQComponents(q) ==
    LET s == FirstIdx(q, LAMBDA i : q[i] = Kw("SELECT"))
        f == FirstIdx(q, LAMBDA i : q[i] = Kw("FROM") /\ i > s + 1)
        f1 == FirstIdx(q, LAMBDA i : q[i] = Kw("FROM") /\ i < Len(q))
        w == WherePos(q)
        n == Len(q)
        tailLimit == n >= 2 /\ q[n-1] = Kw("LIMIT") /\ q[n].k = "num"
        wEnd == IF tailLimit THEN n - 2 ELSE n
    IN [select |-> IF s > 0 /\ f > 0 THEN SubSeq(q, s + 1, f - 1) ELSE <<Star>>,
        from |-> IF f1 > 0 THEN <<q[f1 + 1]>> ELSE <<>>,
        where |-> IF w > 0 /\ w < wEnd THEN SubSeq(q, w + 1, wEnd) ELSE <<>>,
        limit |-> SqlLimit(q)]

\* _build_container_query.
DQBuildContainerQuery(c) ==
    <<Kw("SELECT")>> \o c.select
      \o (IF c.from # <<>> THEN <<Kw("FROM")>> \o c.from ELSE <<>>)
      \o (IF c.where # <<>> THEN <<Kw("WHERE")>> \o c.where ELSE <<>>)
      \o (IF c.limit # <<>> THEN <<Kw("LIMIT"), Num(c.limit[1])>> ELSE <<>>)

RECURSIVE SplitAnd(_)
\* str.split(' AND '): the conjuncts of a WHERE clause.
SplitAnd(w) ==
    LET a == FirstIdx(w, LAMBDA i : w[i] = Kw("AND"))
    IN IF a = 0 THEN <<w>>
       ELSE <<SubSeq(w, 1, a - 1)>> \o SplitAnd(SubSeq(w, a + 1, Len(w)))

RECURSIVE JoinAnd(_)
\* ' AND '.join(conditions).
JoinAnd(cs) ==
    IF cs = <<>> THEN <<>>
    ELSE IF Len(cs) = 1 THEN cs[1]
    ELSE cs[1] \o <<Kw("AND")>> \o JoinAnd(Tail(cs))

\* The conjuncts of the WHERE clause that _optimize_join_query partitions.
DQWhereParts(q) ==
    IF DQComponents(q).where = <<>> THEN <<>> ELSE SplitAnd(DQComponents(q).where)

\* A conjunct of the form column = ... (re.match on its start).
IsEquality(cond) == Len(cond) >= 3 /\ cond[1].k = "col" /\ cond[2] = Kw("=")

\* 'table.' in condition.
Mentions(cond, t) == \E i \in 1..Len(cond) : cond[i].k = "col" /\ cond[i].t = t

\* A comparison of the column names that respects their case.
DQOwnersCaseSensitive(cond, tables) ==
    {t \in Range(tables) : cond[1].c \in Metadata(t).columns}

\* The tables an equality conjunct is pushed down to: those whose metadata
\* lists its column.
DQOwners(cond, tables) ==
    {t \in Range(tables) : Lower(cond[1].c) \in {Lower(c) : c \in Metadata(t).columns}}

\* The first table a non-equality conjunct names, as <<t>>, or <<>>.
DQFirstMention(cond, tables) ==
    LET k == FirstIdx(tables, LAMBDA i : Mentions(cond, tables[i]))
    IN IF k = 0 THEN <<>> ELSE <<tables[k]>>

\* table_where_conditions[t]: the conjuncts pushed down to table t.
DQTableConditions(q, tables, t) ==
    LET parts == DQWhereParts(q)
        mine(cond) == IF IsEquality(cond) THEN t \in DQOwners(cond, tables)
                      ELSE DQFirstMention(cond, tables) = <<t>>
        push(cond) == IF IsEquality(cond)
                      THEN <<Col(t, cond[1].c)>> \o SubSeq(cond, 2, Len(cond))
                      ELSE cond
        at == SelectIdx(Len(parts), LAMBDA i : mine(parts[i]))
    IN [k \in 1..Len(at) |-> push(parts[at[k]])]

\* A common list that takes only the equalities no table took.
DQCommonConditionsEqualities(q, tables) ==
    LET parts == DQWhereParts(q)
        common(cond) == IsEquality(cond) /\ DQOwners(cond, tables) = {}
    IN SelectSeq(parts, common)

\* common_where_conditions: the conjuncts no table took.
DQCommonConditions(q, tables) ==
    LET parts == DQWhereParts(q)
        common(cond) == IF IsEquality(cond) THEN DQOwners(cond, tables) = {}
                        ELSE DQFirstMention(cond, tables) = <<>>
    IN SelectSeq(parts, common)

\* remote_query of the fetch loop: SELECT * FROM <table_name> [WHERE ...].
DQRemoteQuery(q, tables, t) ==
    LET conds == DQTableConditions(q, tables, t)
    IN <<Kw("SELECT"), Star, Kw("FROM"), Tab(Config[t].table_name)>>
         \o (IF conds # <<>> THEN <<Kw("WHERE")>> \o JoinAnd(conds) ELSE <<>>)

\* cond.replace(f"{table}.", f"temp_{table}.") for every table.
DQRewriteCondition(cond, tables) ==
    [i \in 1..Len(cond) |->
        IF cond[i].k = "col" /\ cond[i].t \in Range(tables)
        THEN [cond[i] EXCEPT !.tmp = TRUE] ELSE cond[i]]

TempTab(t) == [Tab(t) EXCEPT !.tmp = TRUE]

RECURSIVE DQJoinClause(_, _, _)
\* join_clause: zip(temp_tables[1:], join_conditions).
DQJoinClause(temps, conds, tables) ==
    IF temps = <<>> \/ conds = <<>> THEN <<>>
    ELSE <<Kw("JOIN"), TempTab(Head(temps)), Kw("ON")>>
           \o DQRewriteCondition(Head(conds), tables)
           \o DQJoinClause(Tail(temps), Tail(conds), tables)

\* optimized_query: SELECT * over the temp tables, the common conjuncts.
DQOptimizedQuery(q, tables) ==
    LET common == DQCommonConditions(q, tables)
    IN <<Kw("SELECT"), Star, Kw("FROM"), TempTab(tables[1])>>
         \o DQJoinClause(Tail(tables), DQJoinConditions(q), tables)
         \o (IF common # <<>> THEN <<Kw("WHERE")>> \o JoinAnd(common) ELSE <<>>)

(* ------------------- requests and the local engine --------------------- *)

NoAwait == [kind |-> "", table |-> "", q |-> <<>>]
NoResp == [status |-> 0, rows |-> <<>>, cols |-> <<>>, cause |-> ""]

\* A request slot before execute_query is entered.
IdleReq ==
    [pc |-> "idle", id |-> 0, q |-> <<>>, phase |-> "", tabs |-> <<>>, i |-> 0,
     temps |-> <<>>, smallest |-> "", modq |-> <<>>, ji |-> 0, cause |-> "",
     await |-> NoAwait,
     sent |-> <<>>, made |-> {}, stmts |-> <<>>, errs |-> {}, fallbacks |-> 0,
     origs |-> 0,
     resp |-> NoResp]

\* x is a request together with the connection it runs on:
\* [rq, conn, reg].
Log(x, op, names, q) ==
    [x EXCEPT !.rq.stmts = Append(@, [op |-> op, names |-> names, q |-> q])]

\* An exception is raised: errs remembers where (phase) and what.
Err(x, e) == [x EXCEPT !.rq.errs = @ \cup {<<x.rq.phase, e>>}]

Goto(x, pc) == [x EXCEPT !.rq.pc = pc]

\* client.get / client.post: the request goes out and the coroutine awaits.
Send(x, kind, t, q, pc) ==
    LET m == [kind |-> kind, table |-> t, q |-> q]
    IN [x EXCEPT !.rq.pc = pc, !.rq.await = m, !.rq.sent = Append(@, m)]

\* execute_query returns (status 200) or raises HTTPException(status).
Finish(x, status, rows, cols, cause) ==
    [x EXCEPT !.rq.pc = "done", !.rq.await = NoAwait,
              !.rq.resp = [status |-> status, rows |-> rows, cols |-> cols,
                           cause |-> cause]]

\* DROP TABLE IF EXISTS nm.
SqlDrop(x, nm) ==
    Log([x EXCEPT !.conn = [n \in (DOMAIN @) \ {nm} |-> @[n]]], "drop", {nm}, <<>>)

RECURSIVE SqlDropAll(_, _)
\* DROP TABLE IF EXISTS temp_<t> for every t of ts, in order.
SqlDropAll(x, ts) ==
    IF ts = <<>> THEN x ELSE SqlDropAll(SqlDrop(x, TempName(Head(ts))), Tail(ts))

\* The drops of a cleanup loop that raise: none, or the drop of one table
\* (none in the runs in which two requests overlap).
DropFaults(ts) ==
    IF mode = "conc" THEN {{}} ELSE {{}} \cup {{TempName(t)} : t \in Range(ts)}

RECURSIVE SqlDropGuarded(_, _, _)
\* for temp_table in ts: try: DROP TABLE IF EXISTS ... except: log.  The
\* drops of the names in bad raise.
SqlDropGuarded(x, ts, bad) ==
    IF ts = <<>> THEN x
    ELSE LET nm == TempName(Head(ts))
             y == IF nm \in bad THEN Log(x, "drop_err", {nm}, <<>>) ELSE SqlDrop(x, nm)
         IN SqlDropGuarded(y, Tail(ts), bad)

RECURSIVE SqlDropUntil(_, _, _)
\* for table in ts: DROP TABLE IF EXISTS ..., without a try: the loop ends
\* at the first drop that raises.
SqlDropUntil(x, ts, bad) ==
    IF ts = <<>> THEN x
    ELSE LET nm == TempName(Head(ts))
         IN IF nm \in bad THEN Log(x, "drop_err", {nm}, <<>>)
            ELSE SqlDropUntil(SqlDrop(x, nm), Tail(ts), bad)

\* CREATE TABLE nm AS SELECT * FROM <DataFrame> raises when nm exists and
\* when the DataFrame has no column (an empty result).
CanCreate(x, nm, df) == nm \notin DOMAIN x.conn /\ df.cols # {}

\* The table remembers the request that created it (by).
SqlCreate(x, nm, df) ==
    Log([x EXCEPT !.conn = [n \in (DOMAIN @) \cup {nm} |->
                               IF n = nm THEN [cols |-> df.cols, rows |-> df.rows,
                                               by |-> x.rq.id]
                               ELSE @[n]],
                  !.rq.made = @ \cup {nm}], "create", {nm}, <<>>)

\* conn.execute(query).fetchdf() of a SELECT.
SqlSelect(x, q) == Eval(q, x.conn)
LogSelect(x, q) ==
    Log(x, "select", {Name(q[p]) : p \in Range(RefPositions(q))}, q)

\* _execute_remote_query: the DataFrame of a response; an empty result
\* gives a DataFrame without columns.
FrameOf(res) ==
    IF res.rows = <<>> THEN Frame({}, <<>>)
    ELSE Frame(res.cols[1], [k \in 1..Len(res.rows) |-> res.rows[k][1]])

(* ------------------------ distributed_query.py -------------------------- *)

\* return (mq, temps) of _optimize_join_query.
DQReturn(x, mq, temps) ==
    [x EXCEPT !.rq.pc = "d_ret", !.rq.modq = mq, !.rq.temps = temps]

\* execute_query up to its first await or to the first call of
\* _optimize_join_query.
DQStart(x) ==
    LET tabs == DQTables(x.rq.q)
    IN IF Len(tabs) = 1
       THEN IF tabs[1] \notin ConfigTables
            THEN Finish(Err(x, "config"), 400, <<>>, <<>>, "config")
            ELSE Send([x EXCEPT !.rq.tabs = tabs], "query", tabs[1],
                      DQBuildContainerQuery(DQComponents(x.rq.q)), "single")
       ELSE [x EXCEPT !.rq.pc = "d_opt", !.rq.phase = "c1"]

\* The container's answer to a forwarded single-table query.
DQAfterSingle(x, ok) ==
    LET res == RemoteExec(x.rq.await.table, x.rq.await.q)
    IN IF ok /\ res.ok THEN Finish(x, 200, res.rows, res.cols, "")
       ELSE Finish(Err(x, "remote"), 400, <<>>, <<>>, "remote")

\* _optimize_join_query: the parsing and the test on the number of tables.
DQOptimize(x) ==
    LET tabs == DQTables(x.rq.q)
        y == [x EXCEPT !.rq.tabs = tabs, !.rq.temps = <<>>, !.rq.i = 1]
    IN IF Len(tabs) < 2 THEN DQReturn(y, x.rq.q, <<>>)
       ELSE Goto(y, "d_metaloop")

\* One round of the metadata loop: _get_table_metadata up to its await.
DQMetaLoop(x) ==
    LET t == x.rq.tabs[x.rq.i]
    IN IF t \notin ConfigTables
       THEN DQReturn(Err(x, "config"), x.rq.q, <<>>)
       ELSE Send(x, "meta", t, <<>>, "meta")

\* A metadata response arrives.
DQAfterMeta(x, ok) ==
    IF ~ok THEN DQReturn(Err(x, "meta"), x.rq.q, <<>>)
    ELSE IF x.rq.i < Len(x.rq.tabs)
    THEN [x EXCEPT !.rq.pc = "d_metaloop", !.rq.i = @ + 1]
    ELSE [x EXCEPT !.rq.pc = "d_fetchloop", !.rq.i = 1]

\* The fetch loop without its DROP TABLE IF EXISTS.
DQFetchLoopNoDrop(x) ==
    LET t == x.rq.tabs[x.rq.i]
        y == [x EXCEPT !.rq.temps = Append(@, t)]
    IN Send(y, "query", t, DQRemoteQuery(x.rq.q, x.rq.tabs, t), "fetch")

\* One round of the fetch loop, up to the await of _execute_remote_query.
DQFetchLoop(x) ==
    LET t == x.rq.tabs[x.rq.i]
        y == SqlDrop([x EXCEPT !.rq.temps = Append(@, t)], TempName(t))
    IN Send(y, "query", t, DQRemoteQuery(x.rq.q, x.rq.tabs, t), "fetch")

\* The response of a fetch arrives: register, CREATE TABLE, next round.
DQAfterFetch(x, ok) ==
    LET t == x.rq.tabs[x.rq.i]
        res == RemoteExec(t, x.rq.await.q)
        df == FrameOf(res)
        y == Log([x EXCEPT !.reg = @ \cup {t}], "register", {TempName(t)}, <<>>)
        z == SqlCreate(y, TempName(t), df)
    IN IF ~(ok /\ res.ok) THEN Goto(Err(x, "remote"), "d_except")
       ELSE IF ~CanCreate(y, TempName(t), df)
       THEN Goto(Err(Log(y, "create_err", {TempName(t)}, <<>>), "create"), "d_except")
       ELSE IF x.rq.i < Len(x.rq.tabs)
       THEN [z EXCEPT !.rq.pc = "d_fetchloop", !.rq.i = @ + 1]
       ELSE DQReturn(z, DQOptimizedQuery(x.rq.q, x.rq.tabs), x.rq.temps)

\* The except branch of _optimize_join_query.
DQExcept(x) == DQReturn(SqlDropAll(x, x.rq.temps), x.rq.q, <<>>)

\* After the return of _optimize_join_query: the first call is
\* execute_query's own, whose result is dropped before
\* _execute_distributed_query calls again.
DQAfterReturn(x) ==
    IF x.rq.phase = "c1" THEN [x EXCEPT !.rq.pc = "d_opt", !.rq.phase = "c2"]
    ELSE Goto(x, "d_exec")

\* _execute_distributed_query after its call has returned: the local
\* execution, the finally block, and the response or the HTTPException of
\* execute_query.
DQExecute(x, bad) ==
    LET res == SqlSelect(x, x.rq.modq)
        y == SqlDropGuarded(LogSelect(x, x.rq.modq), x.rq.temps, bad)
    IN IF res.ok THEN Finish(y, 200, res.rows, res.cols, "")
       ELSE Finish(Err(y, "local"), 400, <<>>, <<>>, "local")

(* -------------------- distributed_query_optimized.py -------------------- *)

\* The cap on the number of ids of an IN list.
IdCap == 1000

\* _parse_query: the set of names after FROM and JOIN.
OptParseQuery(q) ==
    {q[i].t : i \in {j \in 2..Len(q) : q[j].k = "tab"
                                       /\ q[j-1] \in {Kw("FROM"), Kw("JOIN")}}}

\* Iteration over a Python set of names: the order the process's string
\* hashing gives, the same for every set built in one process.
SetSeq(S) == SelectSeq(hashOrder, LAMBDA t : t \in S)

\* _extract_limit, and the truth value `if limit:` tests.
OptExtractLimit(q) == SqlLimit(q)
HasLimit(q) == OptExtractLimit(q) # <<>> /\ OptExtractLimit(q)[1] # 0

\* _remove_limit: every LIMIT n is cut out.
OptRemoveLimit(q) ==
    LET keep == SelectIdx(Len(q), LAMBDA i :
                    /\ ~(q[i] = Kw("LIMIT") /\ i < Len(q) /\ q[i+1].k = "num")
                    /\ ~(q[i].k = "num" /\ i > 1 /\ q[i-1] = Kw("LIMIT")))
    IN [k \in 1..Len(keep) |-> q[keep[k]]]

OptLimitClause(q) ==
    IF HasLimit(q) THEN <<Kw("LIMIT"), Num(OptExtractLimit(q)[1])>> ELSE <<>>

\* The columns taken by SELECT (.*?) FROM <table>: the select list when
\* the table is the FROM table, "*" otherwise.
OptColumns(qwl, t) ==
    LET s == FirstIdx(qwl, LAMBDA i : qwl[i] = Kw("SELECT"))
        f == FirstIdx(qwl, LAMBDA i : /\ s > 0 /\ i > s + 1 /\ i < Len(qwl)
                                      /\ qwl[i] = Kw("FROM") /\ qwl[i+1] = Tab(t))
    IN IF f = 0 THEN <<Star>> ELSE SubSeq(qwl, s + 1, f - 1)

\* query.replace(table, "temp_" + table).
OptReplace(q, t) ==
    [i \in 1..Len(q) |->
        IF q[i].k \in {"tab", "col"} /\ q[i].t = t THEN [q[i] EXCEPT !.tmp = TRUE]
        ELSE q[i]]

RECURSIVE OptReplaceAll(_, _)
OptReplaceAll(q, ts) ==
    IF ts = <<>> THEN q ELSE OptReplaceAll(OptReplace(q, Head(ts)), Tail(ts))

\* _parse_join_conditions: 5-tuples of JOIN t ON a.x = b.y, then 4-tuples
\* of WHERE a.x = b.y.
OptParseJoinConditions(q) ==
    LET qual(i) == i <= Len(q) /\ q[i].k = "col" /\ q[i].t # ""
        js == SelectIdx(Len(q), LAMBDA i :
                 /\ q[i] = Kw("JOIN") /\ i + 5 <= Len(q) /\ q[i+1].k = "tab"
                 /\ q[i+2] = Kw("ON") /\ qual(i+3) /\ q[i+4] = Kw("=") /\ qual(i+5))
        ws == SelectIdx(Len(q), LAMBDA i :
                 /\ q[i] = Kw("WHERE") /\ i + 3 <= Len(q)
                 /\ qual(i+1) /\ q[i+2] = Kw("=") /\ qual(i+3))
    IN [k \in 1..Len(js) |->
            <<q[js[k]+1].t, q[js[k]+3].t, q[js[k]+3].c, q[js[k]+5].t, q[js[k]+5].c>>]
       \o [k \in 1..Len(ws) |->
            <<q[ws[k]+1].t, q[ws[k]+1].c, q[ws[k]+3].t, q[ws[k]+3].c>>]

\* min(tables, key=row_count): the first minimal table in iteration order.
OptSmallest(tabs) ==
    tabs[FirstIdx(tabs, LAMBDA i :
            \A j \in 1..Len(tabs) :
                Metadata(tabs[i]).row_count <= Metadata(tabs[j]).row_count)]

\* SELECT <columns> FROM <table_name> [LIMIT n].
OptSubquery(q, t, limited) ==
    <<Kw("SELECT")>> \o OptColumns(OptRemoveLimit(q), t)
       \o <<Kw("FROM"), Tab(Config[t].table_name)>>
       \o (IF limited THEN OptLimitClause(q) ELSE <<>>)

\* The values of a column in first-occurrence order (SELECT DISTINCT).
Distinct(rows, c) ==
    LET at == SelectIdx(Len(rows), LAMBDA i :
                 \A j \in 1..(i - 1) : rows[j][c] # rows[i][c])
    IN [k \in 1..Len(at) |-> rows[at[k]][c]]

\* The other table, its column and the smallest table's column that the
\* join loop reads off a tuple; ok is FALSE where join[4] does not exist.
OptJoinSides(join, smallest) ==
    IF join[1] = smallest
    THEN IF Len(join) < 5 THEN [ok |-> FALSE, other |-> "", ocol |-> "", scol |-> ""]
         ELSE [ok |-> TRUE, other |-> join[4], ocol |-> join[5], scol |-> join[2]]
    ELSE [ok |-> TRUE, other |-> join[1], ocol |-> join[2], scol |-> join[4]]

\* The subquery with every id in its list.
OptOtherSubqueryUncapped(other, ocol, ids) ==
    <<Kw("SELECT"), Star, Kw("FROM"), Tab(Config[other].table_name),
      Kw("WHERE"), Col("", ocol), Kw("IN"), InList(ids)>>

\* SELECT * FROM <table_name> WHERE <column> IN (<ids>).
OptOtherSubquery(other, ocol, ids) ==
    <<Kw("SELECT"), Star, Kw("FROM"), Tab(Config[other].table_name),
      Kw("WHERE"), Col("", ocol), Kw("IN"), InList(Take(ids, IdCap))>>

\* An exception inside _execute_distributed_query.
OptRaise(x, cause) == [x EXCEPT !.rq.pc = "o_raise", !.rq.cause = cause]

\* The handler of the exception: inside the try it starts the fallback,
\* inside the fallback the exception leaves execute_query as
\* HTTPException(400).
OptHandle(x) ==
    IF x.rq.phase = "try"
    THEN [x EXCEPT !.rq.pc = "o_orig_enter", !.rq.phase = "fb", !.rq.fallbacks = @ + 1]
    ELSE Finish(x, 400, <<>>, <<>>, x.rq.cause)

\* The fetch of table i of _execute_distributed_query_original.
OptOrigSend(x, i) ==
    LET t == x.rq.tabs[i]
    IN Send([x EXCEPT !.rq.i = i], "query", t, OptSubquery(x.rq.q, t, FALSE), "o_orig")

\* The end of _execute_distributed_query_original: the rewritten query.
OptOrigDone(x) ==
    [x EXCEPT !.rq.pc = "o_exec",
              !.rq.modq = OptReplaceAll(OptRemoveLimit(x.rq.q), x.rq.temps)
                            \o OptLimitClause(x.rq.q)]

\* _execute_distributed_query_original up to its first await.
OptOriginal(x) ==
    LET tabs == SetSeq(OptParseQuery(x.rq.q))
        y == [x EXCEPT !.rq.tabs = tabs, !.rq.temps = <<>>, !.rq.origs = @ + 1]
    IN IF ~(Range(tabs) \subseteq ConfigTables) THEN OptRaise(Err(y, "config"), "config")
       ELSE IF tabs = <<>> THEN OptOrigDone(y)
       ELSE OptOrigSend(y, 1)

\* conn.execute(modified_query) and the cleanup loop that follows it in
\* either branch of _execute_distributed_query.
OptExecute(x, bad) ==
    LET res == SqlSelect(x, x.rq.modq)
        y == LogSelect(x, x.rq.modq)
    IN IF ~res.ok THEN OptRaise(Err(y, "local"), "local")
       ELSE IF bad = {} THEN Finish(SqlDropAll(y, x.rq.temps), 200, res.rows, res.cols, "")
       ELSE OptRaise(Err(SqlDropUntil(y, x.rq.temps, bad), "drop"), "local")

\* The metadata request for table i of _optimize_join_query.
OptMetaSend(x, i) ==
    Send([x EXCEPT !.rq.i = i], "meta", x.rq.tabs[i], <<>>, "o_meta")

\* _execute_distributed_query up to its first await.
OptStart(x) ==
    LET q == x.rq.q
        tabs == SetSeq(OptParseQuery(q))
        y == [x EXCEPT !.rq.phase = "try", !.rq.tabs = tabs]
    IN IF ~(Range(tabs) \subseteq ConfigTables) THEN OptRaise(Err(y, "config"), "config")
       ELSE IF Len(tabs) = 1
       THEN Send(y, "query", tabs[1], OptSubquery(q, tabs[1], TRUE), "o_single")
       ELSE IF OptParseJoinConditions(OptRemoveLimit(q)) = <<>>
       THEN Goto(y, "o_orig_enter")
       ELSE OptMetaSend(y, 1)

\* CREATE TABLE temp_<t> AS SELECT * FROM <df>, or the exception it raises.
OptCreate(x, t, df) == SqlCreate(x, TempName(t), df)
OptCreateFails(x, t) ==
    OptRaise(Err(Log(x, "create_err", {TempName(t)}, <<>>), "create"), "local")

\* The single-table branch of _optimize_join_query after its fetch.
OptAfterSingle(x, ok) ==
    LET t == x.rq.await.table
        res == RemoteExec(t, x.rq.await.q)
        df == FrameOf(res)
    IN IF ~(ok /\ res.ok) THEN OptRaise(Err(x, "remote"), "remote")
       ELSE IF ~CanCreate(x, TempName(t), df) THEN OptCreateFails(x, t)
       ELSE [OptCreate(x, t, df) EXCEPT
                !.rq.pc = "o_exec",
                !.rq.temps = <<t>>,
                !.rq.modq = OptReplace(OptRemoveLimit(x.rq.q), t)
                              \o OptLimitClause(x.rq.q)]

\* A metadata response arrives; after the last one the smallest table is
\* fetched.
OptAfterMeta(x, ok) ==
    IF ~ok THEN OptRaise(Err(x, "meta"), "remote")
    ELSE IF x.rq.i < Len(x.rq.tabs) THEN OptMetaSend(x, x.rq.i + 1)
    ELSE LET sm == OptSmallest(x.rq.tabs)
         IN Send([x EXCEPT !.rq.smallest = sm], "query", sm,
                 OptSubquery(x.rq.q, sm, TRUE), "o_drive")

\* The response of the smallest table's fetch arrives.
OptAfterDrive(x, ok) ==
    LET t == x.rq.smallest
        res == RemoteExec(t, x.rq.await.q)
        df == FrameOf(res)
    IN IF ~(ok /\ res.ok) THEN OptRaise(Err(x, "remote"), "remote")
       ELSE IF ~CanCreate(x, TempName(t), df) THEN OptCreateFails(x, t)
       ELSE [OptCreate(x, t, df) EXCEPT
                !.rq.pc = "o_joinloop",
                !.rq.ji = 1,
                !.rq.temps = <<t>>,
                !.rq.modq = OptReplace(OptRemoveLimit(x.rq.q), t)]

\* One round of the loop over the join conditions, up to the next await,
\* or the return of _optimize_join_query after the last round.
OptJoinLoop(x) ==
    LET joins == OptParseJoinConditions(OptRemoveLimit(x.rq.q))
        j == x.rq.ji
        sm == x.rq.smallest
        side == OptJoinSides(joins[j], sm)
        known == TempName(sm) \in DOMAIN x.conn
                   /\ side.scol \in x.conn[TempName(sm)].cols
        idq == <<Kw("SELECT"), Kw("DISTINCT"), Col("", side.scol),
                 Kw("FROM"), TempTab(sm)>>
        ids == Distinct(x.conn[TempName(sm)].rows, side.scol)
        y == LogSelect(x, idq)
    IN IF j > Len(joins)
       THEN [x EXCEPT !.rq.pc = "o_exec", !.rq.modq = @ \o OptLimitClause(x.rq.q)]
       ELSE IF ~side.ok THEN OptRaise(Err(x, "index"), "local")
       ELSE IF side.other \in Range(x.rq.temps) THEN [x EXCEPT !.rq.ji = @ + 1]
       ELSE IF ~known THEN OptRaise(Err(y, "local"), "local")
       ELSE IF ids = <<>> THEN [y EXCEPT !.rq.ji = @ + 1]
       ELSE IF side.other \notin ConfigTables THEN OptRaise(Err(y, "config"), "local")
       ELSE Send(y, "query", side.other,
                 OptOtherSubquery(side.other, side.ocol, ids), "o_dep")

\* The response of a dependent fetch arrives.
OptAfterDep(x, ok) ==
    LET t == x.rq.await.table
        res == RemoteExec(t, x.rq.await.q)
        df == FrameOf(res)
    IN IF ~(ok /\ res.ok) THEN OptRaise(Err(x, "remote"), "remote")
       ELSE IF ~CanCreate(x, TempName(t), df) THEN OptCreateFails(x, t)
       ELSE [OptCreate(x, t, df) EXCEPT
                !.rq.pc = "o_joinloop",
                !.rq.ji = @ + 1,
                !.rq.temps = Append(@, t),
                !.rq.modq = OptReplace(@, t)]

\* The response of a fetch of _execute_distributed_query_original arrives.
OptAfterOrig(x, ok) ==
    LET t == x.rq.tabs[x.rq.i]
        res == RemoteExec(t, x.rq.await.q)
        df == FrameOf(res)
        y == [OptCreate(x, t, df) EXCEPT !.rq.temps = Append(@, t)]
    IN IF ~(ok /\ res.ok) THEN OptRaise(Err(x, "remote"), "remote")
       ELSE IF ~CanCreate(x, TempName(t), df) THEN OptCreateFails(x, t)
       ELSE IF x.rq.i < Len(x.rq.tabs) THEN OptOrigSend(y, x.rq.i + 1)
       ELSE OptOrigDone(y)

(* ------------------------------ queries -------------------------------- *)

JoinOn(a, ac, b, bc) ==
    <<Kw("SELECT"), Star, Kw("FROM"), Tab(a), Kw("JOIN"), Tab(b), Kw("ON"),
      Col(a, ac), Kw("="), Col(b, bc)>>

QSingle == <<Kw("SELECT"), Star, Kw("FROM"), Tab("accounts"),
             Kw("WHERE"), Col("", "region"), Kw("="), Lit("EU"),
             Kw("LIMIT"), Num(1)>>
QJoin == JoinOn("accounts", "id", "transactions", "account_id")
QJoinLimit == QJoin \o <<Kw("LIMIT"), Num(2)>>

QGhostJoin == JoinOn("accounts", "id", "ghost", "account_id")
QGhostSingle == <<Kw("SELECT"), Star, Kw("FROM"), Tab("ghost")>>
QCross == <<Kw("SELECT"), Star, Kw("FROM"), Tab("accounts"), Kw("CROSS"), Kw("JOIN"),
            Tab("transactions"), Kw("WHERE"), Col("transactions", "account_id"),
            Kw("="), Col("accounts", "id"), Kw("LIMIT"), Num(2)>>

\* ... WHERE accounts.region = 'US' LIMIT 2
QWhereLimit == QJoin \o <<Kw("WHERE"), Col("accounts", "region"), Kw("="), Lit("US"),
                          Kw("LIMIT"), Num(2)>>
\* ... WHERE accounts.id = '3' LIMIT 1 over accounts and branches, which
\* both have a column id.
QWhereId == JoinOn("accounts", "id", "branches", "id")
              \o <<Kw("WHERE"), Col("accounts", "id"), Kw("="), Lit("3"),
                   Kw("LIMIT"), Num(1)>>
\* ... WHERE REGION = 'US' AND id = '3' AND tier = 'gold': a column of one
\* table, a column of both tables, a column of no table.
QPush == JoinOn("accounts", "id", "branches", "id")
           \o <<Kw("WHERE"), Col("", "REGION"), Kw("="), Lit("US"),
                Kw("AND"), Col("", "id"), Kw("="), Lit("3"),
                Kw("AND"), Col("", "tier"), Kw("="), Lit("gold")>>
\* A join without a condition _parse_join_conditions recognises.
QNoCond == <<Kw("SELECT"), Star, Kw("FROM"), Tab("accounts"), Kw("CROSS"), Kw("JOIN"),
             Tab("transactions")>>

\* SELECT accounts.region ... WHERE accounts.id IN ('1', '3') AND
\* city IN ('Oslo', 'Bern'): a select list, and conjuncts that are not
\* equalities, one naming a table and one naming none.
QMixed == <<Kw("SELECT"), Col("accounts", "region")>>
            \o SubSeq(JoinOn("accounts", "id", "branches", "id"), 3, 10)
            \o <<Kw("WHERE"), Col("accounts", "id"), Kw("IN"), InList(<<"1", "3">>),
                 Kw("AND"), Col("", "city"), Kw("IN"), InList(<<"Oslo", "Bern">>)>>

\* The queries a client sends.
Queries == {QSingle, QJoin, QJoinLimit, QGhostJoin, QGhostSingle, QCross,
            QWhereLimit, QWhereId, QPush, QNoCond, QMixed}

\* The queries of the runs in which two requests overlap.
Overlapped == {QSingle, QJoin, QJoinLimit, QGhostJoin, QGhostSingle, QCross}

\* The iteration orders of a set of table names that the runs cover.
HashOrders == {<<"accounts", "transactions", "branches", "ghost">>,
               <<"transactions", "branches", "accounts", "ghost">>}

(* ------------------------------ the system ------------------------------ *)

\* call and ret are used by the runs of single functions below; the
\* servers leave them alone.
NoCall == [fn |-> "", arg |-> <<>>]

\* The labels at which a coroutine holds the event loop: it runs from its
\* resumption to its next await without any other coroutine running.
Running == {"d_opt", "d_metaloop", "d_fetchloop", "d_except", "d_ret", "d_exec",
            "o_raise", "o_orig_enter", "o_exec", "o_joinloop"}

InFlight(r) == req[r].pc \notin {"idle", "done"}

\* The event loop is free to start or resume a coroutine.
LoopFree == \A o \in Slots : req[o].pc \notin Running

X(r) == [rq |-> req[r], conn |-> conn, reg |-> registered]

Apply(r, out) ==
    /\ req' = [req EXCEPT ![r] = out.rq]
    /\ conn' = out.conn
    /\ registered' = out.reg
    /\ UNCHANGED <<server, mode, hashOrder, call, ret>>

\* A client posts a query; in mode "seq" only when no request is running.
CanStart(r) ==
    /\ LoopFree
    /\ ~InFlight(r)
    /\ started < MaxRequests
    /\ mode = "seq" => \A o \in Slots : ~InFlight(o)

Fresh(r, q) ==
    [rq |-> [IdleReq EXCEPT !.q = q, !.id = started + 1], conn |-> conn,
     reg |-> registered]

\* A response (ok) or a failure of the awaited remote call resumes r.
Resumes(r, pc) == LoopFree /\ req[r].pc = pc

\* The queries a client may post in this run.
Inputs == IF mode = "conc" THEN Overlapped ELSE Queries

\* r continues at an internal label.
Continues(r, pc) == req[r].pc = pc

DQStartRequest(r) ==
    /\ server = "dq" /\ CanStart(r)
    /\ \E q \in Inputs : Apply(r, DQStart(Fresh(r, q)))
    /\ started' = started + 1

DQSingleResponse(r) ==
    /\ Resumes(r, "single")
    /\ \E ok \in BOOLEAN : Apply(r, DQAfterSingle(X(r), ok))
    /\ UNCHANGED started

DQOptimizeStep(r) ==
    Continues(r, "d_opt") /\ Apply(r, DQOptimize(X(r))) /\ UNCHANGED started

DQMetaLoopStep(r) ==
    Continues(r, "d_metaloop") /\ Apply(r, DQMetaLoop(X(r))) /\ UNCHANGED started

DQMetaResponse(r) ==
    /\ Resumes(r, "meta")
    /\ \E ok \in BOOLEAN : Apply(r, DQAfterMeta(X(r), ok))
    /\ UNCHANGED started

DQFetchLoopStep(r) ==
    Continues(r, "d_fetchloop") /\ Apply(r, DQFetchLoop(X(r))) /\ UNCHANGED started

DQFetchResponse(r) ==
    /\ Resumes(r, "fetch")
    /\ \E ok \in BOOLEAN : Apply(r, DQAfterFetch(X(r), ok))
    /\ UNCHANGED started

DQExceptStep(r) ==
    Continues(r, "d_except") /\ Apply(r, DQExcept(X(r))) /\ UNCHANGED started

DQReturnStep(r) ==
    Continues(r, "d_ret") /\ Apply(r, DQAfterReturn(X(r))) /\ UNCHANGED started

DQExecuteStep(r) ==
    /\ Continues(r, "d_exec")
    /\ \E bad \in DropFaults(req[r].temps) : Apply(r, DQExecute(X(r), bad))
    /\ UNCHANGED started

OptStartRequest(r) ==
    /\ server = "opt" /\ CanStart(r)
    /\ \E q \in Inputs : Apply(r, OptStart(Fresh(r, q)))
    /\ started' = started + 1

OptSingleResponse(r) ==
    /\ Resumes(r, "o_single")
    /\ \E ok \in BOOLEAN : Apply(r, OptAfterSingle(X(r), ok))
    /\ UNCHANGED started

OptMetaResponse(r) ==
    /\ Resumes(r, "o_meta")
    /\ \E ok \in BOOLEAN : Apply(r, OptAfterMeta(X(r), ok))
    /\ UNCHANGED started

OptDriveResponse(r) ==
    /\ Resumes(r, "o_drive")
    /\ \E ok \in BOOLEAN : Apply(r, OptAfterDrive(X(r), ok))
    /\ UNCHANGED started

OptJoinLoopStep(r) ==
    Continues(r, "o_joinloop") /\ Apply(r, OptJoinLoop(X(r))) /\ UNCHANGED started

OptDepResponse(r) ==
    /\ Resumes(r, "o_dep")
    /\ \E ok \in BOOLEAN : Apply(r, OptAfterDep(X(r), ok))
    /\ UNCHANGED started

OptExecuteStep(r) ==
    /\ Continues(r, "o_exec")
    /\ \E bad \in DropFaults(req[r].temps) : Apply(r, OptExecute(X(r), bad))
    /\ UNCHANGED started

OptHandleStep(r) ==
    Continues(r, "o_raise") /\ Apply(r, OptHandle(X(r))) /\ UNCHANGED started

OptOriginalStep(r) ==
    Continues(r, "o_orig_enter") /\ Apply(r, OptOriginal(X(r))) /\ UNCHANGED started

OptOrigResponse(r) ==
    /\ Resumes(r, "o_orig")
    /\ \E ok \in BOOLEAN : Apply(r, OptAfterOrig(X(r), ok))
    /\ UNCHANGED started

Init ==
    /\ server \in {"dq", "opt"}
    /\ mode \in {"seq", "conc"}
    /\ hashOrder \in HashOrders
    /\ server = "dq" => hashOrder = <<"accounts", "transactions", "branches", "ghost">>
    /\ conn = [n \in {} |-> [cols |-> {}, rows |-> <<>>, by |-> 0]]
    /\ registered = {}
    /\ req = [r \in Slots |-> IdleReq]
    /\ started = 0
    /\ call = NoCall
    /\ ret = <<>>

Next ==
    \E r \in Slots :
        \/ DQStartRequest(r)
        \/ DQSingleResponse(r)
        \/ DQOptimizeStep(r)
        \/ DQMetaLoopStep(r)
        \/ DQMetaResponse(r)
        \/ DQFetchLoopStep(r)
        \/ DQFetchResponse(r)
        \/ DQExceptStep(r)
        \/ DQReturnStep(r)
        \/ DQExecuteStep(r)
        \/ OptStartRequest(r)
        \/ OptSingleResponse(r)
        \/ OptMetaResponse(r)
        \/ OptDriveResponse(r)
        \/ OptJoinLoopStep(r)
        \/ OptDepResponse(r)
        \/ OptExecuteStep(r)
        \/ OptHandleStep(r)
        \/ OptOriginalStep(r)
        \/ OptOrigResponse(r)

Spec == Init /\ [][Next]_vars

(* ---------------------- single functions on their own ------------------ *)

\* The numbers of distinct ids of a driving table, around the cap, and the
\* numbers of repeated rows.
DistinctCounts == {0, 1, 2} \cup ((IdCap - 2)..(IdCap + 3))
Repeats == 0..4

\* The fetched rows of a driving table with n distinct ids, numbered in
\* the order of their first occurrence: e copies of the first id, the ids
\* 1..n, e copies of the last id.
DrivingRows(n, e) ==
    IF n = 0 THEN <<>>
    ELSE [k \in 1..(n + 2 * e) |->
            [id |-> IF k <= e THEN 1 ELSE IF k > n + e THEN n ELSE k - e]]

\* The container entries of a configuration file.
Containers ==
    [url : {<<"http://", "data1">>, <<"https://", "data2">>, <<"data3">>,
            <<"localhost">>},
     port : {"8001", "8002"}]

UnitCalls ==
    {[fn |-> "in_list", arg |-> DrivingRows(n, e)] :
        n \in DistinctCounts, e \in Repeats}
      \cup [fn : {"metadata_url", "remote_query_url", "forward_url"}, arg : Containers]

UnitInit ==
    /\ server = "dq" /\ mode = "seq"
    /\ hashOrder = <<"accounts", "transactions", "branches", "ghost">>
    /\ conn = [n \in {} |-> [cols |-> {}, rows |-> <<>>, by |-> 0]]
    /\ registered = {}
    /\ req = [r \in Slots |-> IdleReq]
    /\ started = 0
    /\ call \in UnitCalls
    /\ ret = <<>>

Returns(fn, out) ==
    /\ call.fn = fn /\ ret = <<>>
    /\ ret' = out
    /\ UNCHANGED <<server, mode, hashOrder, conn, registered, req, started, call>>

\* The join loop of _optimize_join_query from the id query to the subquery
\* of the other table.
OptIdListCall ==
    Returns("in_list",
            OptOtherSubquery("transactions", "account_id", Distinct(call.arg, "id")))

DQMetadataUrlCall == Returns("metadata_url", DQMetadataUrl(call.arg))
DQRemoteQueryUrlCall == Returns("remote_query_url", DQRemoteQueryUrl(call.arg))
DQForwardUrlCall == Returns("forward_url", DQForwardUrl(call.arg))

UnitNext ==
    \/ OptIdListCall
    \/ DQMetadataUrlCall
    \/ DQRemoteQueryUrlCall
    \/ DQForwardUrlCall

UnitSpec == UnitInit /\ [][UnitNext]_vars

(* ------------------------------- claims --------------------------------- *)

Done(r) == req[r].pc = "done"

\* The table names a query references (after FROM and JOIN).
Referenced(q) == OptParseQuery(q)

\* The temp tables of the connection that request r created.
LeftBy(r) == {n \in DOMAIN conn : conn[n].by = req[r].id}

\* The exceptions of request r: all of them, and those of one phase.
Raised(r) == {e[2] : e \in req[r].errs}
RaisedIn(r, ph) == {e[2] : e \in {f \in req[r].errs : f[1] = ph}}

\* The temp-table names the local statements of request r touched.
Touched(r) == UNION {req[r].stmts[k].names : k \in 1..Len(req[r].stmts)}

\* C1: distributed_query.py: once execute_query has returned or raised for
\* a multi-table query, no temp table created during that request is left
\* in the connection, whatever remote calls failed.
C1_NoTempLeft ==
    server = "dq" =>
        \A r \in Slots :
            (Done(r) /\ Cardinality(Referenced(req[r].q)) >= 2) => LeftBy(r) = {}

\* C2: distributed_query_optimized.py: every temp table created during a
\* request is dropped before execute_query returns or raises, whether or
\* not the local execution raised and whether or not the fallback ran.
C2_NoTempLeftOpt ==
    server = "opt" => \A r \in Slots : Done(r) => LeftBy(r) = {}

\* C3: for the same two-table join and the same remote data, the rows of a
\* request that took the optimized path and the rows of a request that
\* took the fallback path are equal as sets.
C3_PathsRowEquivalent ==
    \A a, b \in Slots :
        ( /\ Done(a) /\ Done(b)
          /\ req[a].q = req[b].q
          /\ Cardinality(Referenced(req[a].q)) = 2
          /\ req[a].resp.status = 200 /\ req[b].resp.status = 200
          /\ req[a].fallbacks = 0 /\ Raised(a) = {}
          /\ req[b].fallbacks = 1 )
        => Range(req[a].resp.rows) = Range(req[b].resp.rows)

\* C4: distributed_query.py: a failed metadata fetch of a multi-table
\* query is not surfaced; when the data fetches succeed the request
\* returns the result of the fallback plan.
C4_MetadataFailureFallsBack ==
    (server = "dq" /\ mode = "seq") =>
        \A r \in Slots :
            ( /\ Done(r)
              /\ Cardinality(Referenced(req[r].q)) >= 2
              /\ Referenced(req[r].q) \subseteq ConfigTables
              /\ "meta" \in Raised(r)
              /\ "remote" \notin Raised(r) )
            => req[r].resp.status = 200

\* C5: distributed_query_optimized.py: when a step of the optimized path
\* raises, the fallback runs and, its own fetches succeeding, the request
\* returns the join result.
C5_FallbackReturnsResult ==
    (server = "opt" /\ mode = "seq") =>
        \A r \in Slots :
            ( /\ Done(r)
              /\ Referenced(req[r].q) \subseteq ConfigTables
              /\ req[r].fallbacks >= 1
              /\ "remote" \notin RaisedIn(r, "fb") )
            => req[r].resp.status = 200

\* C6: a query naming a table that is not configured fails with status
\* 400, and at no point of the request has a remote request been sent.
C6_UnknownTableNoRemoteCall ==
    \A r \in Slots :
        (req[r].pc # "idle" /\ ~(Referenced(req[r].q) \subseteq ConfigTables))
        => /\ req[r].sent = <<>>
           /\ Done(r) => req[r].resp.status = 400

\* C7: a request ended by a failed remote fetch or by a failure of the
\* local engine is answered with status 500; status 400 is for query and
\* configuration errors only.
C7_ExecutionErrorsAre500 ==
    \A r \in Slots :
        Done(r) =>
            /\ req[r].resp.cause \in {"remote", "local"} => req[r].resp.status = 500
            /\ req[r].resp.status = 400 => req[r].resp.cause = "config"

\* C8: two requests in flight at the same time never create, read or drop
\* a temp table of the same name.
C8_TempNamesUniquePerRequest ==
    \A a, b \in Slots :
        (a # b /\ InFlight(a) /\ InFlight(b)) => Touched(a) \cap Touched(b) = {}

\* C9: a single-table query sends exactly one query request, to that
\* table's container, sends no metadata request and runs no statement on
\* the local engine at any point of the request.
C9_SingleTableBypassesEngine ==
    \A r \in Slots :
        ( /\ req[r].pc # "idle"
          /\ Cardinality(Referenced(req[r].q)) = 1
          /\ Referenced(req[r].q) \subseteq ConfigTables )
        => /\ req[r].stmts = <<>>
           /\ Len(req[r].sent) = 1
           /\ req[r].sent[1].kind = "query"
           /\ req[r].sent[1].table \in Referenced(req[r].q)

\* The query a client would send to the container itself: the same select
\* list, WHERE and LIMIT over the container's own table.
Direct(q, t) ==
    [i \in 1..Len(q) |-> IF q[i] = Tab(t) THEN Tab(Config[t].table_name) ELSE q[i]]

\* C10: the response to a single-table query has the rows and columns the
\* container returns for the same select list, WHERE and LIMIT, the WHERE
\* applied before the LIMIT.
C10_SingleTableSameAsContainer ==
    \A r \in Slots : \A t \in ConfigTables :
        ( /\ Done(r)
          /\ Referenced(req[r].q) = {t}
          /\ req[r].resp.status = 200 )
        => /\ req[r].resp.rows = RemoteExec(t, Direct(req[r].q, t)).rows
           /\ req[r].resp.cols = RemoteExec(t, Direct(req[r].q, t)).cols

\* The data requests request r has sent for table t.
FetchesOf(r, t) ==
    {req[r].sent[k].q : k \in {j \in 1..Len(req[r].sent) :
                                 req[r].sent[j].kind = "query" /\ req[r].sent[j].table = t}}

\* The tables of the data requests of r, in the order they were sent.
FetchOrder(r) ==
    LET at == SelectIdx(Len(req[r].sent), LAMBDA k : req[r].sent[k].kind = "query")
    IN [k \in 1..Len(at) |-> req[r].sent[at[k]].table]

\* q restricts column c with IN over exactly the values vs.
RestrictsIn(q, c, vs) ==
    \E p \in 1..Len(q) :
        /\ p + 3 <= Len(q)
        /\ q[p] = Kw("WHERE") /\ q[p+1].k = "col" /\ q[p+1].c = c
        /\ q[p+2] = Kw("IN") /\ q[p+3].k = "in" /\ Range(q[p+3].vs) = vs

\* C11: for the join of accounts (the smaller table) and transactions on
\* accounts.id = transactions.account_id, accounts is fetched first and
\* every data request for transactions restricts account_id with IN over
\* the distinct ids of accounts; transactions is never fetched in full.
\* (No remote call of the request has failed.)
C11_DependentFetchUsesIn ==
    \A r \in Slots :
        (req[r].q = QJoin /\ Raised(r) \cap {"meta", "remote"} = {}) =>
            /\ FetchOrder(r) # <<>> => FetchOrder(r)[1] = "accounts"
            /\ \A f \in FetchesOf(r, "transactions") :
                   RestrictsIn(f, "account_id",
                               {RemoteRows["accounts"][k].id :
                                    k \in 1..Len(RemoteRows["accounts"])})


\* A query of the shape
\* SELECT * FROM A JOIN B ON A.x = B.y WHERE A.c = literal LIMIT n.
JoinWhereLimitShape(q) ==
    /\ Len(q) = 16
    /\ SubSeq(q, 1, 10) = JoinOn(q[4].t, q[8].c, q[6].t, q[10].c)
    /\ q[4].t # q[6].t
    /\ q[11] = Kw("WHERE") /\ q[12].k = "col" /\ q[12].t = q[4].t
    /\ q[13] = Kw("=") /\ q[14].k = "lit"
    /\ q[15] = Kw("LIMIT") /\ q[16].k = "num"

\* C12: once distributed_query.py has parsed a query of the shape
\* SELECT * FROM A JOIN B ON A.x = B.y WHERE A.c = literal LIMIT n, the
\* tables are A and B, the only join condition is A.x = B.y, the only WHERE
\* predicate is A.c = literal, it is pushed down to A and to no other table
\* and is not common, and the limit is n.  (Stated for the states
\* in which the fetch of B has been sent: the parse and the attribution
\* have run.)
C12_ParseJoinWhereLimit ==
    \A r \in Slots :
        (/\ server = "dq"
         /\ JoinWhereLimitShape(req[r].q)
         /\ FetchesOf(r, req[r].q[6].t) # {}) =>
            LET q == req[r].q
                tables == DQTables(q)
            IN /\ tables = <<q[4].t, q[6].t>>
               /\ req[r].tabs = tables
               /\ DQJoinConditions(q) = <<SubSeq(q, 8, 10)>>
               /\ DQWhereParts(q) = <<SubSeq(q, 12, 14)>>
               /\ DQComponents(q).limit = <<q[16].n>>
               /\ DQTableConditions(q, tables, q[4].t) = <<SubSeq(q, 12, 14)>>
               /\ DQTableConditions(q, tables, q[6].t) = <<>>
               /\ DQCommonConditions(q, tables) = <<>>
               /\ FetchesOf(r, q[6].t) \subseteq
                      {<<Kw("SELECT"), Star, Kw("FROM"), Tab(Config[q[6].t].table_name)>>}

\* The request is a multi-table one: its query references two tables.
MultiTable(r) == Cardinality(Referenced(req[r].q)) >= 2

\* C13: in a multi-table request no query sent to a container (driving
\* fetch, dependent fetch, fallback fetch) carries a LIMIT clause.
C13_NoLimitOnRemoteFetch ==
    \A r \in Slots :
        MultiTable(r) =>
            \A k \in 1..Len(req[r].sent) :
                req[r].sent[k].kind = "query" =>
                    \A p \in 1..Len(req[r].sent[k].q) :
                        req[r].sent[k].q[p] # Kw("LIMIT")

\* The SELECT statements request r ran on the local engine.
SelectsOf(r) ==
    {req[r].stmts[k].q : k \in {j \in 1..Len(req[r].stmts) : req[r].stmts[j].op = "select"}}

\* The last statement of q is LIMIT n.
EndsWithLimit(q, n) ==
    Len(q) >= 2 /\ q[Len(q) - 1] = Kw("LIMIT") /\ q[Len(q)] = Num(n)

\* C14: a multi-table request with LIMIT n that is answered with status 200
\* ran a join over its temp tables that ends with LIMIT n, and its
\* response holds at most n rows.
C14_LocalQueryKeepsLimit ==
    \A r \in Slots :
        (/\ Done(r) /\ req[r].resp.status = 200
         /\ MultiTable(r) /\ SqlLimit(req[r].q) # <<>>) =>
            LET n == SqlLimit(req[r].q)[1]
            IN /\ Len(req[r].resp.rows) <= n
               /\ \E s \in SelectsOf(r) :
                      /\ EndsWithLimit(s, n)
                      /\ \A p \in Range(RefPositions(s)) : s[p].tmp

\* The positions of the local statements of request r with operation op.
StmtsAt(r, op) == {k \in 1..Len(req[r].stmts) : req[r].stmts[k].op = op}

\* C15: when a drop of a cleanup loop has failed, the request has ended
\* with that cleanup (no fallback, no other statement follows the failure
\* but drops), the drop of every temp table of the loop has been attempted
\* after the join, and a request whose local joins all succeeded is
\* answered with status 200.
C15_DropFailureIsHarmless ==
    \A r \in Slots :
        \A k \in StmtsAt(r, "drop_err") :
            /\ Done(r)
            /\ \A j \in (k + 1)..Len(req[r].stmts) :
                   req[r].stmts[j].op \in {"drop", "drop_err"}
            /\ \A t \in Range(req[r].temps) :
                   \E j \in StmtsAt(r, "drop") \cup StmtsAt(r, "drop_err") :
                       /\ TempName(t) \in req[r].stmts[j].names
                       /\ \A i \in StmtsAt(r, "select") : i < j
            /\ "local" \notin Raised(r) => req[r].resp.status = 200

\* The tables whose DataFrame request r registered (conn.register).
RegisteredBy(r) ==
    {t \in ConfigTables :
        \E k \in StmtsAt(r, "register") : req[r].stmts[k].names = {TempName(t)}}

\* C16: distributed_query.py: at the step that completes a request, no temp
\* table created by the request is left in the engine and no DataFrame it
\* registered is still registered.
C16_RegisteredObjectsRemoved ==
    [][\A r \in Slots :
          (server = "dq" /\ ~Done(r) /\ Done(r)') =>
              /\ LeftBy(r)' = {}
              /\ RegisteredBy(r)' \cap registered' = {}]_vars

\* The referenced tables of q in the order the query names them.
EncounterOrder(q) ==
    LET at == SelectIdx(Len(q), LAMBDA i : i >= 2 /\ q[i].k = "tab"
                                           /\ q[i-1] \in {Kw("FROM"), Kw("JOIN")})
    IN [k \in 1..Len(at) |-> q[at[k]].t]

\* C17: distributed_query_optimized.py: the driving table of a request is
\* a referenced table of minimal row_count, and among the tables of minimal
\* row_count it is the one the query names first.
C17_DrivingTableMinimalFirst ==
    \A r \in Slots :
        (server = "opt" /\ req[r].smallest # "") =>
            LET order == EncounterOrder(req[r].q)
                minimal(t) == \A u \in Range(order) :
                                  Metadata(t).row_count <= Metadata(u).row_count
            IN /\ req[r].smallest \in Range(order)
               /\ minimal(req[r].smallest)
               /\ req[r].smallest = order[FirstIdx(order, LAMBDA i : minimal(order[i]))]

\* The positions of the AND-separated conjuncts column = literal of the
\* WHERE clause of q.
EqLitAt(q) ==
    LET w == WherePos(q)
    IN IF w = 0 THEN {}
       ELSE {p \in (w + 1)..(Len(q) - 2) :
             /\ q[p-1] \in {Kw("WHERE"), Kw("AND")}
             /\ q[p].k = "col" /\ q[p+1] = Kw("=") /\ q[p+2].k = "lit"
             /\ p + 3 <= Len(q) => q[p+3] \in {Kw("AND"), Kw("LIMIT")}}

\* The WHERE clause of f has the conjunct col = lit.
HasConjunct(f, col, lit) ==
    \E p \in 2..(Len(f) - 2) :
        /\ f[p-1] \in {Kw("WHERE"), Kw("AND")}
        /\ f[p] = col /\ f[p+1] = Kw("=") /\ f[p+2] = lit

\* The metadata of table t lists column c, whatever the case of c.
HasColumn(t, c) == Lower(c) \in {Lower(d) : d \in Metadata(t).columns}

\* The joins over temp tables that request r ran on the local engine.
TempJoinsOf(r) == {s \in SelectsOf(r) : \A p \in Range(RefPositions(s)) : s[p].tmp}

\* C18: distributed_query.py, multi-table request: for every conjunct
\* c = literal of the WHERE clause and every referenced table t, the fetch
\* sent for t carries the conjunct t.c = literal exactly when the metadata
\* of t lists c (case-insensitively); the join run over the temp tables
\* carries the conjunct, as written, exactly when no referenced table
\* lists c.
C18_EqualityPushedToOwners ==
    \A r \in Slots :
        (server = "dq" /\ req[r].sent # <<>> /\ MultiTable(r)) =>
            \A p \in EqLitAt(req[r].q) :
                LET c == req[r].q[p].c
                    lit == req[r].q[p+2]
                IN /\ \A t \in Referenced(req[r].q) :
                          \A f \in FetchesOf(r, t) :
                              HasConjunct(f, Col(t, c), lit) <=> HasColumn(t, c)
                   /\ \A s \in TempJoinsOf(r) :
                          HasConjunct(s, req[r].q[p], lit)
                              <=> \A t \in Referenced(req[r].q) : ~HasColumn(t, c)

\* A request of distributed_query.py has fetched both tables for a WHERE
\* clause with a conjunct of one table (in capitals), one of both tables
\* and one of no table, and has run the join over the temp tables.
C18_Witness ==
    \E r \in Slots :
        /\ server = "dq" /\ req[r].q = QPush /\ Done(r)
        /\ FetchesOf(r, "accounts") # {} /\ FetchesOf(r, "branches") # {}
        /\ TempJoinsOf(r) # {}

\* C19: in a multi-table request every query run on the local engine
\* names temp tables only, each of them created earlier in the request
\* from fetched data.
C19_JoinAfterAllTablesFetched ==
    \A r \in Slots :
        MultiTable(r) =>
            \A k \in StmtsAt(r, "select") :
                \A nm \in req[r].stmts[k].names :
                    /\ nm.tmp
                    /\ \E j \in StmtsAt(r, "create") :
                           j < k /\ nm \in req[r].stmts[j].names

\* C20: distributed_query_optimized.py: a request runs the fallback plan
\* (_execute_distributed_query_original) at most once; a failure inside
\* that plan ends the request.
C20_AtMostOneFallback ==
    \A r \in Slots : server = "opt" => req[r].origs <= 1

\* The ids of the rows of a driving table.
IdsOf(rows) == {rows[k].id : k \in 1..Len(rows)}

\* C21: distributed_query_optimized.py: the IN list of the subquery built
\* from the rows of the driving table (whose distinct ids are 1..n in the
\* order of their first occurrence) is 1, ..., n when n <= 1000 and
\* 1, ..., 1000 when n > 1000; it has at most 1000 values, all of them ids
\* of the rows.
C21_InListCapped ==
    (call.fn = "in_list" /\ ret # <<>>) =>
        LET n == Cardinality(IdsOf(call.arg))
            last == ret[Len(ret)]
        IN /\ last.k = "in"
           /\ Len(last.vs) <= 1000
           /\ last.vs = [i \in 1..(IF n <= 1000 THEN n ELSE 1000) |-> i]
           /\ Range(last.vs) \subseteq IdsOf(call.arg)

\* The subquery has been built from rows with more than 1000 distinct ids,
\* some of them repeated.
C21_Witness ==
    /\ call.fn = "in_list" /\ ret # <<>>
    /\ Cardinality(IdsOf(call.arg)) > 1000
    /\ Len(call.arg) > Cardinality(IdsOf(call.arg))

\* C22: while a request awaits a fetch of the fallback plan
\* (_execute_distributed_query_original), the query it has sent is
\* SELECT * FROM <table_name> of the table: all columns, no WHERE, no LIMIT.
C22_FallbackFetchesInFull ==
    \A r \in Slots :
        req[r].pc = "o_orig" =>
            req[r].await.q = <<Kw("SELECT"), Star, Kw("FROM"),
                               Tab(Config[req[r].await.table].table_name)>>

\* C23: a request that has not run the fallback plan has sent at most one
\* metadata request and at most one data fetch per table.
C23_NoRemoteCallRepeated ==
    \A r \in Slots :
        (req[r].fallbacks = 0 /\ req[r].origs = 0) =>
            \A j, k \in 1..Len(req[r].sent) :
                (/\ j < k
                 /\ req[r].sent[j].kind = req[r].sent[k].kind)
                    => req[r].sent[j].table # req[r].sent[k].table

\* C24: the url a dispatch of distributed_query.py is sent to starts with
\* exactly one scheme: the configured url followed by :port and the path
\* when the configured url has a scheme, http:// and the configured url
\* followed by :port and the path when it has none.
C24_UrlNormalized ==
    (call.fn \in {"metadata_url", "remote_query_url", "forward_url"} /\ ret # <<>>) =>
        LET url == call.arg.url
            base == IF Head(url) \in Schemes THEN url ELSE <<"http://">> \o url
            path == IF call.fn = "metadata_url" THEN "/metadata" ELSE "/query"
        IN /\ Head(ret) \in Schemes
           /\ ret[2] \notin Schemes
           /\ ret = base \o <<":", call.arg.port, path>>

\* The positions of the ON keywords of q, each followed by an equality of
\* two columns.
OnPositions(q) ==
    SelectIdx(Len(q), LAMBDA i : /\ q[i] = Kw("ON") /\ i + 3 <= Len(q)
                                 /\ q[i+1].k = "col" /\ q[i+2] = Kw("=")
                                 /\ q[i+3].k = "col")

\* C25: distributed_query.py, query with k >= 1 JOIN ... ON clauses, once
\* the request has parsed it: the tables are the k+1 tables in the order
\* the query names them, there are k join conditions, the i-th is the
\* equality after the i-th ON and nothing else, and a join the request runs
\* over its temp tables has k JOIN clauses, the i-th joining the temp table
\* of table i+1 on the i-th equality.
C25_JoinConditionsPerJoin ==
    \A r \in Slots :
        (server = "dq" /\ req[r].tabs # <<>> /\ OnPositions(req[r].q) # <<>>) =>
            LET q == req[r].q
                on == OnPositions(q)
                k == Len(on)
                conds == DQJoinConditions(q)
            IN /\ req[r].tabs = EncounterOrder(q)
               /\ Len(req[r].tabs) = k + 1
               /\ Len(conds) = k
               /\ \A i \in 1..k : conds[i] = SubSeq(q, on[i] + 1, on[i] + 3)
               /\ \A s \in TempJoinsOf(r) :
                      /\ Cardinality({p \in 1..Len(s) : s[p] = Kw("JOIN")}) = k
                      /\ \A i \in 1..k :
                             \E p \in 1..(Len(s) - 5) :
                                 /\ s[p] = Kw("JOIN")
                                 /\ s[p+1] = TempTab(req[r].tabs[i+1])
                                 /\ s[p+2] = Kw("ON")
                                 /\ SubSeq(s, p + 3, p + 5)
                                      = DQRewriteCondition(SubSeq(q, on[i] + 1, on[i] + 3),
                                                           req[r].tabs)

\* C26: a temp table created by a multi-table request that is still in
\* flight is neither removed nor replaced by a step of another request.
C26_NoDestructiveInterleaving ==
    [][\A n \in DOMAIN conn :
          \A o \in Slots :
              (/\ conn[n].by = req[o].id
               /\ InFlight(o) /\ MultiTable(o)
               /\ req'[o] = req[o]) =>
                  (n \in DOMAIN conn' /\ conn'[n] = conn[n])]_vars

\* C27: distributed_query_optimized.py, requests one after another: when
\* a CREATE TABLE temp_<table> of a request has just raised because the
\* table exists, the table is one the request itself created, not one an
\* earlier request left.
C27_LaterRequestIndependent ==
    \A r \in Slots :
        (/\ server = "opt" /\ mode = "seq"
         /\ req[r].pc = "o_raise" /\ req[r].stmts # <<>>
         /\ req[r].stmts[Len(req[r].stmts)].op = "create_err") =>
            \A nm \in req[r].stmts[Len(req[r].stmts)].names :
                nm \in DOMAIN conn => conn[nm].by = req[r].id

\* The local tables a query names.
TablesRead(q) ==
    {[t |-> q[i].t, tmp |-> q[i].tmp] : i \in {j \in DOMAIN q : q[j].k = "tab"}}

\* C28: distributed_query.py, requests one at a time: a CREATE TABLE
\* temp_<table> never raises because of a table an earlier request left,
\* and every local table the query about to be executed reads was created
\* by the request itself.
C28_LeftoverNeverUsed ==
    \A r \in Slots :
        (server = "dq" /\ mode = "seq") =>
            /\ (/\ req[r].pc = "d_except" /\ req[r].stmts # <<>>
                /\ req[r].stmts[Len(req[r].stmts)].op = "create_err") =>
                   \A nm \in req[r].stmts[Len(req[r].stmts)].names :
                       nm \in DOMAIN conn => conn[nm].by = req[r].id
            /\ req[r].pc = "d_exec" =>
                   \A nm \in TablesRead(req[r].modq) :
                       nm \in DOMAIN conn => conn[nm].by = req[r].id

\* A request joins tables of which an earlier request left the temp
\* tables: it has dropped and created again the first one, and the second
\* one is still the earlier request's.
C28_Witness ==
    \E r \in Slots :
        /\ server = "dq" /\ mode = "seq"
        /\ req[r].pc = "d_fetchloop" /\ req[r].i = 2
        /\ TempName(req[r].tabs[1]) \in DOMAIN conn
        /\ conn[TempName(req[r].tabs[1])].by = req[r].id
        /\ TempName(req[r].tabs[2]) \in DOMAIN conn
        /\ conn[TempName(req[r].tabs[2])].by < req[r].id

\* C29: distributed_query.py: the query _execute_distributed_query is
\* about to run on the local engine is never the caller's text; every
\* table it names is a temp table the request created.
C29_OnlyRewrittenQueryRunsLocally ==
    \A r \in Slots :
        (server = "dq" /\ req[r].pc = "d_exec") =>
            /\ req[r].modq # req[r].q
            /\ \A nm \in TablesRead(req[r].modq) : nm.tmp /\ nm \in req[r].made

\* The AND-separated conjuncts of the WHERE clause of a query, a trailing
\* LIMIT n left out.
ConjunctsOf(q) ==
    LET w == WherePos(q)
        n == Len(q)
        e == IF n >= 2 /\ q[n-1] = Kw("LIMIT") /\ q[n].k = "num" THEN n - 2 ELSE n
    IN IF w = 0 \/ w >= e THEN {} ELSE Range(SplitAnd(SubSeq(q, w + 1, e)))

\* A conjunct with its leading column qualified by table t.
QualifiedBy(cond, t) ==
    IF cond # <<>> /\ cond[1].k = "col" THEN [cond EXCEPT ![1] = Col(t, cond[1].c)]
    ELSE cond

\* C30: distributed_query.py: when the rewritten join is about to be
\* executed, every AND-separated conjunct of the caller's WHERE clause is a
\* conjunct of the remote query of some table (as written, or with its
\* column qualified by that table) or a conjunct of the WHERE of the
\* rewritten join.
C30_NoPredicateLost ==
    \A r \in Slots :
        (/\ server = "dq" /\ req[r].pc = "d_exec"
         /\ req[r].modq # req[r].q) =>
            \A cond \in ConjunctsOf(req[r].q) :
                \/ \E k \in DOMAIN req[r].sent :
                       /\ req[r].sent[k].kind = "query"
                       /\ \/ cond \in ConjunctsOf(req[r].sent[k].q)
                          \/ QualifiedBy(cond, req[r].sent[k].table)
                                \in ConjunctsOf(req[r].sent[k].q)
                \/ cond \in ConjunctsOf(req[r].modq)

\* A query with a conjunct that is pushed down and a conjunct that stays
\* common has been rewritten and is about to be executed.
C30_Witness ==
    \E r \in Slots :
        /\ server = "dq" /\ req[r].pc = "d_exec"
        /\ req[r].q = QMixed /\ req[r].modq # req[r].q
        /\ ConjunctsOf(req[r].modq) # {}
        /\ \E k \in DOMAIN req[r].sent :
               req[r].sent[k].kind = "query" /\ ConjunctsOf(req[r].sent[k].q) # {}


====
